---- MODULE Spec2Model ----
(***************************************************************************)
(* MockUdp1 (capsules/src/mock_udp.rs): a single-socket UDP session that   *)
(* binds a source port through the UDP port table, sends its id to a fixed *)
(* destination every 5 timer-units from the alarm callback, re-arms the    *)
(* alarm from the send-completion callback, and prints what it receives.   *)
(*                                                                         *)
(* The session's handlers run to completion one at a time (single          *)
(* cooperative-callback scheduling), so each handler is one action.  The   *)
(* collaborators whose code is not in mock_udp.rs (port table, sender and  *)
(* receiver, buffer, alarm) are modelled from their interface contracts:   *)
(*  - the port table hands out at most NumSockets sockets, binds a socket  *)
(*    to a non-zero port nobody has bound, and unbinds a handle pair that  *)
(*    belongs to one socket;                                               *)
(*  - handles are values that move: get_binding() takes the handle out of  *)
(*    the sender or receiver, unbind() consumes the pair (rebind passes    *)
(*    them by value and drops what the Err arm gives back);                *)
(*  - the transport keeps the buffer from send_to until it calls           *)
(*    send_done, once, whatever status send_to returned;                   *)
(*  - every set_alarm schedules one alarm, which fires once, at its        *)
(*    deadline; alarms are kept by the ticks left until they are due.      *)
(* start() is called first and once; the other operations follow it.       *)
(***************************************************************************)
EXTENDS Integers, Sequences, FiniteSets, TLC

VARIABLES
    id,                \* MockUdp1.id
    src_port,          \* MockUdp1.src_port : Cell<u16>
    dst_port,          \* MockUdp1.dst_port : Cell<u16>
    udp_dgram,         \* MockUdp1.udp_dgram : MapCell<Buffer>; None when taken
    sender_binding,    \* handle stored in udp_sender (set_binding/get_binding)
    receiver_binding,  \* handle stored in udp_receiver
    my_port,           \* port_table: the session's socket: none / unbound / port
    others,            \* port_table: ports bound by the sockets of other users
    alarms,            \* alarm: number of scheduled alarms due in r ticks
    inflight,          \* datagram handed to the transport, completion pending
    panicked,          \* an expect() failed: the session has terminated
    started,           \* start() has been called
    op,                \* the handler that ran last
    calls,             \* collaborator calls and diagnostics of that handler
    fault,             \* history: a failure of section 7 has been handled
    tampered,          \* history: a handle was installed from outside
    directTook,        \* history: a direct send() call has taken the buffer
    sync,              \* history: no tick has passed with a send in flight
    sinceLast,         \* history: ticks since the last fired() send, or start()
    fires,             \* history: number of fired() sends so far, capped at 2
    outcome,           \* history: how the bind of start() ended
    sinceAttempt,      \* history: ticks since the last fired(), -1 before it
    flight,            \* history: ticks the datagram in flight has been out
    lateDone,          \* history: ticks since a completion later than Period
    afterLate          \* history: lateDone as the last fired() found it

program == <<id, src_port, dst_port, udp_dgram, sender_binding,
             receiver_binding, my_port, others, alarms, inflight, panicked,
             started, op, calls>>
timed == <<sync, sinceLast, fires>>
stretched == <<sinceAttempt, flight, lateDone, afterLate>>
history == <<fault, tampered, directTook, outcome, timed, stretched>>
vars == <<program, history>>

bindings == <<sender_binding, receiver_binding>>
table == <<my_port, others>>

-----------------------------------------------------------------------------
(* Bounds of the model *)

MaxTimers == 2      \* alarms plus completions outstanding at once
NumSockets == 2     \* sockets the port table can hand out
BufCap == 3         \* capacity of the datagram buffer, in bytes

(* Program constants *)

Period == 5         \* <A::Frequency>::frequency() * 5, in timer-units

(* Option<T>: None, or Some(x) holding x *)
None == <<>>
Some(x) == <<x>>
The(o) == o[1]

SUCCESS == "SUCCESS"
FAIL == "FAIL"
ReturnCode == {SUCCESS, FAIL}

DST_ADDR == [i \in 1..16 |-> 15 + i]

Ids == {263}
Values == {255, 4660}
SrcPorts == {0, 100, 300}
DstPorts == {200, 201}
OtherPorts == {300, 400}
InitByte == 238

NOSOCK == -1        \* the session has no socket in the table
UNBOUND == 0        \* its socket is bound to no port

-----------------------------------------------------------------------------
(* Buffer<'static, u8>: a byte region with an active window *)

BufNew(data) == [data |-> data, lo |-> 0, hi |-> Len(data)]
BufLen(buf) == buf.hi - buf.lo
BufGet(buf, i) == buf.data[buf.lo + i + 1]
BufSet(buf, i, b) == [buf EXCEPT !.data[buf.lo + i + 1] = b]
BufSlice(buf, from, to) == [buf EXCEPT !.lo = buf.lo + from, !.hi = buf.lo + to]
BufReset(buf) == [buf EXCEPT !.lo = 0, !.hi = Len(buf.data)]

(* u16 -> u8 conversions of send() *)
HighByte(value) == (value \div 256) % 256
LowByte(value) == value % 256

-----------------------------------------------------------------------------
(* UdpPortTable *)

SocketsOut(mine, oth) == Cardinality(oth) + (IF mine = NOSOCK THEN 0 ELSE 1)
CreateOk(mine, oth) == SocketsOut(mine, oth) < NumSockets
PortInUse(mine, oth, port) == port = mine \/ port \in oth
BindOk(mine, oth, port) == port # 0 /\ ~PortInUse(mine, oth, port)
Handle(owner, port) == [sock |-> owner, port |-> port]
UnbindOk(sb, rb) == sb.sock = rb.sock

(* the port table has the session's socket bound to a port *)
Bound == my_port > 0

(* the sender and the receiver hold the two handles of one live bind *)
HeldPair == sender_binding # None /\ receiver_binding # None
ValidPair ==
    /\ HeldPair
    /\ sender_binding = receiver_binding
    /\ The(sender_binding) = Handle("session", my_port)

-----------------------------------------------------------------------------
(* Alarm: one-shot alarms; alarms[r] of them are due in r ticks *)

Due == 0..Period
SetAlarm(al, r) == [al EXCEPT ![r] = @ + 1]
ClearAlarm(al, r) == [al EXCEPT ![r] = @ - 1]
Advance(al) == [r \in Due |-> IF r = Period THEN 0 ELSE al[r + 1]]
RECURSIVE SumFrom(_, _)
SumFrom(al, r) == IF r > Period THEN 0 ELSE al[r] + SumFrom(al, r + 1)
Scheduled(al) == SumFrom(al, 0)
Outstanding == Scheduled(alarms) + (IF inflight = None THEN 0 ELSE 1)

Elapse(n) == IF n > Period THEN n ELSE n + 1

-----------------------------------------------------------------------------
Init ==
    /\ id \in Ids
    /\ src_port \in SrcPorts
    /\ dst_port \in DstPorts
    /\ udp_dgram = Some(BufNew([i \in 1..BufCap |-> InitByte]))
    /\ sender_binding = None
    /\ receiver_binding = None
    /\ my_port = NOSOCK
    /\ others = {}
    /\ alarms = [r \in Due |-> 0]
    /\ inflight = None
    /\ panicked = FALSE
    /\ started = FALSE
    /\ op = "new"
    /\ calls = <<>>
    /\ fault = FALSE
    /\ tampered = FALSE
    /\ directTook = FALSE
    /\ sync = TRUE
    /\ sinceLast = 0
    /\ fires = 0
    /\ outcome = "none"
    /\ sinceAttempt = -1
    /\ flight = 0
    /\ lateDone = -1
    /\ afterLate = -1

-----------------------------------------------------------------------------
(* the alarm set one tick short of the period *)
Expiry_early(al) == SetAlarm(al, Period - 1)

(* set_alarm(now + frequency * 5): one more alarm, due in Period ticks *)
Expiry(al) == SetAlarm(al, Period)

(* Install with the receiver's set_binding left out *)
Install_sender_only(send_bind, rcv_bind) ==
    /\ sender_binding' = Some(send_bind)
    /\ receiver_binding' = None

(* set_binding on the sender and on the receiver *)
Install(send_bind, rcv_bind) ==
    /\ sender_binding' = Some(send_bind)
    /\ receiver_binding' = Some(rcv_bind)

(* FirstBind that keeps the socket when the bind fails *)
FirstBind_keep_socket ==
    IF ~CreateOk(my_port, others)
    THEN /\ calls' = <<"set_alarm", "create_socket:err", "debug:Socket error">>
         /\ UNCHANGED <<my_port, bindings>>
    ELSE IF BindOk(UNBOUND, others, src_port)
    THEN /\ my_port' = src_port
         /\ Install(Handle("session", src_port), Handle("session", src_port))
         /\ calls' = <<"set_alarm", "create_socket:ok", "bind:ok", "debug:bound",
                       "set_binding", "set_binding">>
    ELSE /\ my_port' = UNBOUND
         /\ calls' = <<"set_alarm", "create_socket:ok", "bind:err",
                       "debug:Binding error">>
         /\ UNCHANGED bindings

(* start(): create_socket, then bind to the stored source port *)
FirstBind ==
    IF ~CreateOk(my_port, others)
    THEN /\ calls' = <<"set_alarm", "create_socket:err", "debug:Socket error">>
         /\ UNCHANGED <<my_port, bindings>>
    ELSE IF BindOk(UNBOUND, others, src_port)
    THEN /\ my_port' = src_port
         /\ Install(Handle("session", src_port), Handle("session", src_port))
         /\ calls' = <<"set_alarm", "create_socket:ok", "bind:ok", "debug:bound",
                       "set_binding", "set_binding">>
    ELSE /\ my_port' = NOSOCK
         /\ calls' = <<"set_alarm", "create_socket:ok", "bind:err",
                       "debug:Binding error", "destroy_socket">>
         /\ UNCHANGED bindings

(* start that asks for the socket first and sets the alarm only once it has
   one *)
start_socket_first ==
    /\ ~panicked
    /\ ~started
    /\ started' = TRUE
    /\ op' = "start"
    /\ alarms' = IF CreateOk(my_port, others) THEN Expiry(alarms) ELSE alarms
    /\ FirstBind
    /\ UNCHANGED <<id, src_port, dst_port, udp_dgram, others, inflight, panicked>>

(* MockUdp1::start *)
start ==
    /\ ~panicked
    /\ ~started
    /\ started' = TRUE
    /\ op' = "start"
    /\ alarms' = Expiry(alarms)
    /\ FirstBind
    /\ UNCHANGED <<id, src_port, dst_port, udp_dgram, others, inflight, panicked>>

(* Option::expect: the value is missing, the session panics *)
Missing(binding) == binding = None

(* rebind(): unbind the handles taken from the sender and the receiver
   (get_binding moves the handle out of its holder), then bind to the port *)
Rebound(port) ==
    IF Missing(sender_binding)
    THEN /\ panicked' = TRUE
         /\ calls' = <<"get_binding", "panic:missing1">>
         /\ UNCHANGED <<my_port, bindings>>
    ELSE IF Missing(receiver_binding)
    THEN /\ panicked' = TRUE
         /\ sender_binding' = None
         /\ calls' = <<"get_binding", "get_binding", "panic:missing2">>
         /\ UNCHANGED <<my_port, receiver_binding>>
    ELSE IF ~UnbindOk(The(sender_binding), The(receiver_binding))
    THEN /\ sender_binding' = None
         /\ receiver_binding' = None
         /\ calls' = <<"get_binding", "get_binding", "unbind:err",
                       "debug:TEST FAIL">>
         /\ UNCHANGED <<my_port, panicked>>
    ELSE IF BindOk(UNBOUND, others, port)
    THEN /\ my_port' = port
         /\ Install(Handle("session", port), Handle("session", port))
         /\ calls' = <<"get_binding", "get_binding", "unbind:ok", "bind:ok",
                       "debug:bound", "set_binding", "set_binding">>
         /\ UNCHANGED panicked
    ELSE /\ my_port' = NOSOCK
         /\ sender_binding' = None
         /\ receiver_binding' = None
         /\ calls' = <<"get_binding", "get_binding", "unbind:ok", "bind:err",
                       "debug:Binding error", "destroy_socket">>
         /\ UNCHANGED panicked

(* rebind binding to the port stored before the call *)
rebind_stale(port) ==
    /\ ~panicked
    /\ started
    /\ op' = "rebind"
    /\ src_port' = port
    /\ Rebound(src_port)
    /\ UNCHANGED <<id, dst_port, udp_dgram, others, alarms, inflight, started>>

(* rebind that schedules an alarm, as start does *)
rebind_rearm(port) ==
    /\ ~panicked
    /\ started
    /\ op' = "rebind"
    /\ src_port' = port
    /\ Rebound(src_port')
    /\ alarms' = Expiry(alarms)
    /\ UNCHANGED <<id, dst_port, udp_dgram, others, inflight, started>>

(* rebind that recalls the datagram in flight *)
rebind_recall(port) ==
    /\ ~panicked
    /\ started
    /\ op' = "rebind"
    /\ src_port' = port
    /\ Rebound(src_port')
    /\ udp_dgram' = IF inflight = None THEN udp_dgram
                    ELSE Some(The(inflight).buf)
    /\ inflight' = None
    /\ UNCHANGED <<id, dst_port, others, alarms, started>>

(* rebind that stores the new port only once it has both handles *)
rebind_store_late(port) ==
    /\ ~panicked
    /\ started
    /\ op' = "rebind"
    /\ src_port' = IF HeldPair THEN port ELSE src_port
    /\ Rebound(port)
    /\ UNCHANGED <<id, dst_port, udp_dgram, others, alarms, inflight, started>>

(* MockUdp1::rebind *)
rebind(port) ==
    /\ ~panicked
    /\ started
    /\ op' = "rebind"
    /\ src_port' = port
    /\ Rebound(src_port')
    /\ UNCHANGED <<id, dst_port, udp_dgram, others, alarms, inflight, started>>

(* set_dst that also redirects the datagram in flight *)
set_dst_retarget(port) ==
    /\ ~panicked
    /\ started
    /\ op' = "set_dst"
    /\ calls' = <<>>
    /\ dst_port' = port
    /\ inflight' = IF inflight = None THEN None
                   ELSE Some([The(inflight) EXCEPT !.port = port])
    /\ UNCHANGED <<id, src_port, udp_dgram, bindings, table, alarms, panicked,
                   started>>

(* MockUdp1::set_dst *)
set_dst(port) ==
    /\ ~panicked
    /\ started
    /\ op' = "set_dst"
    /\ calls' = <<>>
    /\ dst_port' = port
    /\ UNCHANGED <<id, src_port, udp_dgram, bindings, table, alarms, inflight,
                   panicked, started>>

(* Encode with the two bytes in the other order *)
Encode_swapped(buf, value) ==
    BufSlice(BufSet(BufSet(buf, 0, LowByte(value)), 1, HighByte(value)), 0, 2)

(* send(): the bytes written and the window given to the transport *)
Encode(buf, value) ==
    BufSlice(BufSet(BufSet(buf, 0, HighByte(value)), 1, LowByte(value)), 0, 2)

(* UDPSender::send_to: the status it may return at once *)
SendToResults(binding) == IF binding = None THEN {FAIL} ELSE ReturnCode

(* send(): the buffer taken from the cell goes to the transport *)
Handoff(dgram, value) ==
    \E rc \in SendToResults(sender_binding) :
        /\ inflight' = Some([buf |-> Encode(dgram, value), dest |-> DST_ADDR,
                             port |-> dst_port])
        /\ calls' = IF rc = SUCCESS THEN <<"send_to:SUCCESS">>
                    ELSE <<"send_to:FAIL", "debug:Mock UDP Send Failed">>

(* send without the check that the cell holds the buffer: the datagram in
   flight is written and sent again *)
send_overwrite(value) ==
    IF udp_dgram = None
    THEN /\ Handoff(The(inflight).buf, value)
         /\ UNCHANGED <<udp_dgram, panicked>>
    ELSE /\ udp_dgram' = None
         /\ Handoff(The(udp_dgram), value)
         /\ UNCHANGED panicked

(* send that expects the buffer and panics when the cell is empty *)
send_expect(value) ==
    IF udp_dgram = None
    THEN /\ panicked' = TRUE
         /\ calls' = <<"debug:udp_dgram not present">>
         /\ UNCHANGED <<udp_dgram, inflight>>
    ELSE /\ udp_dgram' = None
         /\ Handoff(The(udp_dgram), value)
         /\ UNCHANGED panicked

(* MockUdp1::send *)
send(value) ==
    IF udp_dgram = None
    THEN /\ calls' = <<"debug:udp_dgram not present">>
         /\ UNCHANGED <<udp_dgram, inflight, panicked>>
    ELSE /\ udp_dgram' = None
         /\ Handoff(The(udp_dgram), value)
         /\ UNCHANGED panicked

(* a direct call of the public send() *)
call_send(value) ==
    /\ ~panicked
    /\ started
    /\ udp_dgram # None => Outstanding < MaxTimers
    /\ op' = "send"
    /\ send(value)
    /\ UNCHANGED <<id, src_port, dst_port, bindings, table, alarms, started>>

(* fired that sets the next alarm itself *)
fired_rearm ==
    /\ ~panicked
    /\ alarms[0] > 0
    /\ alarms' = Expiry(ClearAlarm(alarms, 0))
    /\ op' = "fired"
    /\ send(id)
    /\ UNCHANGED <<id, src_port, dst_port, bindings, table, started>>

(* time::Client::fired: an alarm that is due expires *)
fired ==
    /\ ~panicked
    /\ alarms[0] > 0
    /\ alarms' = ClearAlarm(alarms, 0)
    /\ op' = "fired"
    /\ send(id)
    /\ UNCHANGED <<id, src_port, dst_port, bindings, table, started>>

(* Returned with dgram.reset() left out *)
Returned_noreset(buf) == buf

(* send_done(): the buffer put back into the cell *)
Returned(buf) == BufReset(buf)

(* send_done that sets the alarm Period ticks after the send, not after the
   completion: a fixed-rate timer *)
send_done_fixed_rate(result) ==
    /\ ~panicked
    /\ inflight # None
    /\ op' = "send_done"
    /\ calls' = <<"debug:result:" \o result, "set_alarm">>
    /\ udp_dgram' = Some(Returned(The(inflight).buf))
    /\ inflight' = None
    /\ alarms' = SetAlarm(alarms, IF flight > Period THEN 0 ELSE Period - flight)
    /\ UNCHANGED <<id, src_port, dst_port, bindings, table, panicked, started>>

(* send_done that sets the next alarm only after a successful send *)
send_done_on_success(result) ==
    /\ ~panicked
    /\ inflight # None
    /\ op' = "send_done"
    /\ calls' = <<"debug:result:" \o result, "set_alarm">>
    /\ udp_dgram' = Some(Returned(The(inflight).buf))
    /\ inflight' = None
    /\ alarms' = IF result = SUCCESS THEN Expiry(alarms) ELSE alarms
    /\ UNCHANGED <<id, src_port, dst_port, bindings, table, panicked, started>>

(* UDPSendClient::send_done *)
send_done(result) ==
    /\ ~panicked
    /\ inflight # None
    /\ op' = "send_done"
    /\ calls' = <<"debug:result:" \o result, "set_alarm">>
    /\ udp_dgram' = Some(Returned(The(inflight).buf))
    /\ inflight' = None
    /\ alarms' = Expiry(alarms)
    /\ UNCHANGED <<id, src_port, dst_port, bindings, table, panicked, started>>

(* receive that answers the datagram: it takes the buffer and sends *)
receive_reply(from_port, len) ==
    /\ ~panicked
    /\ started
    /\ op' = "receive"
    /\ send(len)
    /\ UNCHANGED <<id, src_port, dst_port, bindings, table, alarms, started>>

(* UDPRecvClient::receive *)
receive(from_port, len) ==
    /\ ~panicked
    /\ started
    /\ op' = "receive"
    /\ calls' = <<"debug:Received">>
    /\ UNCHANGED <<id, src_port, dst_port, udp_dgram, bindings, table, alarms,
                   inflight, panicked, started>>

-----------------------------------------------------------------------------
(* The environment *)

(* the clock advances one tick; an alarm that is due fires first *)
Tick ==
    /\ ~panicked
    /\ started
    /\ alarms[0] = 0
    /\ alarms' = Advance(alarms)
    /\ op' = "tick"
    /\ calls' = <<>>
    /\ UNCHANGED <<id, src_port, dst_port, udp_dgram, bindings, table, inflight,
                   panicked, started>>

(* another user of the port table creates a socket and binds it *)
OtherBind(port) ==
    /\ ~panicked
    /\ CreateOk(my_port, others)
    /\ BindOk(my_port, others, port)
    /\ others' = others \cup {port}
    /\ op' = "other"
    /\ calls' = <<>>
    /\ UNCHANGED <<id, src_port, dst_port, udp_dgram, bindings, my_port, alarms,
                   inflight, panicked, started>>

(* another user unbinds and destroys its socket *)
OtherUnbind(port) ==
    /\ ~panicked
    /\ port \in others
    /\ others' = others \ {port}
    /\ op' = "other"
    /\ calls' = <<>>
    /\ UNCHANGED <<id, src_port, dst_port, udp_dgram, bindings, my_port, alarms,
                   inflight, panicked, started>>

(* another client of the shared sender installs its own send handle *)
ForeignSetBinding(port) ==
    /\ ~panicked
    /\ started
    /\ port \in others
    /\ sender_binding' = Some(Handle("other", port))
    /\ op' = "set_binding"
    /\ calls' = <<>>
    /\ UNCHANGED <<id, src_port, dst_port, udp_dgram, receiver_binding, table,
                   alarms, inflight, panicked, started>>

-----------------------------------------------------------------------------
(* History variables: what has happened so far, read off each step *)

Has(log, entry) == \E i \in 1..Len(log) : log[i] = entry
Failure(log) ==
    \/ Has(log, "create_socket:err")
    \/ Has(log, "bind:err")
    \/ Has(log, "unbind:err")
    \/ Has(log, "debug:udp_dgram not present")
    \/ Has(log, "send_to:FAIL")

SentTo(log) == Has(log, "send_to:SUCCESS") \/ Has(log, "send_to:FAIL")
(* the step is a fired() whose send handed the buffer to the transport *)
FiredSend == op' = "fired" /\ SentTo(calls')

Flags ==
    /\ fault' = (fault \/ Failure(calls'))
    /\ tampered' = (tampered \/ op' = "set_binding")
    /\ directTook' = (directTook \/ (op' = "send" /\ udp_dgram # None))
    /\ outcome' = IF op' # "start" THEN outcome
                  ELSE IF Has(calls', "bind:ok") THEN "bound"
                  ELSE IF Has(calls', "bind:err") THEN "bind:err"
                  ELSE "create_socket:err"

Timing ==
    /\ sync' = (sync /\ ~(op' = "tick" /\ inflight # None))
    /\ sinceLast' = IF op' = "start" \/ FiredSend THEN 0
                    ELSE IF op' = "tick" THEN Elapse(sinceLast)
                    ELSE sinceLast
    /\ fires' = IF FiredSend /\ fires < 2 THEN fires + 1 ELSE fires

(* the time from fired() to fired(), from send_to to send_done, and from a
   send_done that came more than Period ticks after its send_to to the next
   fired() *)
Stretch ==
    /\ sinceAttempt' = IF op' = "fired" THEN 0
                       ELSE IF op' = "tick" /\ sinceAttempt >= 0
                       THEN Elapse(sinceAttempt)
                       ELSE sinceAttempt
    /\ flight' = IF inflight' = None \/ inflight = None THEN 0
                 ELSE IF op' = "tick" THEN Elapse(flight)
                 ELSE flight
    /\ lateDone' = IF op' = "send_done"
                   THEN (IF flight > Period THEN 0 ELSE -1)
                   ELSE IF op' = "fired" THEN -1
                   ELSE IF op' = "tick" /\ lateDone >= 0 THEN Elapse(lateDone)
                   ELSE lateDone
    /\ afterLate' = IF op' = "fired" THEN lateDone ELSE afterLate

Observe == Flags /\ UNCHANGED <<timed, stretched>>
ObserveTimed == Flags /\ Timing /\ UNCHANGED stretched
ObserveStretch == Flags /\ Stretch /\ UNCHANGED timed

-----------------------------------------------------------------------------
(* The session with its collaborators and the other users of the table *)
Next ==
    \/ start /\ Observe
    \/ (\E port \in SrcPorts : rebind(port)) /\ Observe
    \/ (\E port \in DstPorts : set_dst(port)) /\ Observe
    \/ (\E value \in Values : call_send(value)) /\ Observe
    \/ fired /\ Observe
    \/ (\E result \in ReturnCode : send_done(result)) /\ Observe
    \/ (\E from_port \in DstPorts, len \in 0..1 : receive(from_port, len)) /\ Observe
    \/ Tick /\ Observe
    \/ (\E port \in OtherPorts : OtherBind(port)) /\ Observe
    \/ (\E port \in OtherPorts : OtherUnbind(port)) /\ Observe
    \/ (\E port \in OtherPorts : ForeignSetBinding(port)) /\ Observe

Spec == Init /\ [][Next]_vars

(* The session alone on the port table, with the elapsed ticks between alarm
   expiries recorded *)
NextTimed ==
    \/ start /\ ObserveTimed
    \/ (\E port \in SrcPorts : rebind(port)) /\ ObserveTimed
    \/ (\E port \in DstPorts : set_dst(port)) /\ ObserveTimed
    \/ (\E value \in Values : call_send(value)) /\ ObserveTimed
    \/ fired /\ ObserveTimed
    \/ (\E result \in ReturnCode : send_done(result)) /\ ObserveTimed
    \/ (\E from_port \in DstPorts, len \in 0..1 : receive(from_port, len)) /\ ObserveTimed
    \/ Tick /\ ObserveTimed

SpecTimed == Init /\ [][NextTimed]_vars

(* The session alone on the port table, with the elapsed ticks between alarm
   expiries and around late completions recorded *)
NextStretch ==
    \/ start /\ ObserveStretch
    \/ (\E port \in SrcPorts : rebind(port)) /\ ObserveStretch
    \/ (\E port \in DstPorts : set_dst(port)) /\ ObserveStretch
    \/ (\E value \in Values : call_send(value)) /\ ObserveStretch
    \/ fired /\ ObserveStretch
    \/ (\E result \in ReturnCode : send_done(result)) /\ ObserveStretch
    \/ (\E from_port \in DstPorts, len \in 0..1 : receive(from_port, len)) /\ ObserveStretch
    \/ Tick /\ ObserveStretch

SpecStretch == Init /\ [][NextStretch]_vars

(* The session alone on the port table; an alarm that is due fires, the
   transport delivers the completion of every send_to, and time passes *)
NextLive ==
    \/ start /\ Observe
    \/ (\E port \in SrcPorts : rebind(port)) /\ Observe
    \/ (\E port \in DstPorts : set_dst(port)) /\ Observe
    \/ (\E value \in Values : call_send(value)) /\ Observe
    \/ fired /\ Observe
    \/ (\E result \in ReturnCode : send_done(result)) /\ Observe
    \/ (\E from_port \in DstPorts, len \in 0..1 : receive(from_port, len)) /\ Observe
    \/ Tick /\ Observe

Fairness ==
    /\ WF_vars(fired /\ Observe)
    /\ WF_vars((\E result \in ReturnCode : send_done(result)) /\ Observe)
    /\ WF_vars(Tick /\ Observe)

SpecLive == Init /\ [][NextLive]_vars /\ Fairness

-----------------------------------------------------------------------------
(* Properties *)

SendStep == op' \in {"send", "fired"}

(* C1: the buffer is always in exactly one place, the session's cell or in
   flight with the transport awaiting its completion; and a send issued
   while it is in flight calls no send_to and leaves the datagram in flight,
   bytes and length, as it was *)
C1_SingleOutstandingBuffer ==
    /\ []((udp_dgram = None) # (inflight = None))
    /\ [][(SendStep /\ inflight # None) =>
            /\ ~SentTo(calls')
            /\ inflight' = inflight
            /\ udp_dgram' = udp_dgram]_vars

(* a direct send found the buffer in flight and was skipped with a diagnostic *)
C1_Witness ==
    /\ op = "send"
    /\ inflight # None
    /\ udp_dgram = None
    /\ calls = <<"debug:udp_dgram not present">>

(* C2: a rebind whose unbind fails on mismatched handles leaves the source
   port, the destination port, the handles held and the binding state as
   they were before the call *)
C2_UnbindMismatchInert ==
    [][(op' = "rebind" /\ Has(calls', "unbind:err")) =>
         /\ src_port' = src_port
         /\ dst_port' = dst_port
         /\ sender_binding' = sender_binding
         /\ receiver_binding' = receiver_binding
         /\ table' = table]_vars

(* C3 as stated: the sender and the receiver hold a valid handle pair exactly
   when the session's socket is bound in the port table *)
C3_ValidPairIffBound == ValidPair <=> Bound

(* C3 as amended: a valid pair is held only while bound; while no handle has
   been installed from outside the session, bound implies a valid pair is
   held; after a failed bind no handle is held and the socket is gone; after
   a failed unbind the socket is still bound and no valid pair is held *)
C3_ValidPairUnlessTampered ==
    /\ ValidPair => Bound
    /\ ~tampered => (Bound => ValidPair)
    /\ (op \in {"start", "rebind"} /\ Has(calls, "bind:err")) =>
           (~Bound /\ sender_binding = None /\ receiver_binding = None)
    /\ (op = "rebind" /\ Has(calls, "unbind:err")) => (Bound /\ ~ValidPair)

(* the bind in a rebind failed: unbound, and nothing held *)
C3_Witness ==
    /\ op = "rebind"
    /\ Has(calls, "bind:err")
    /\ ~tampered
    /\ ~Bound
    /\ ~HeldPair

Count(log, entry) == Cardinality({i \in 1..Len(log) : log[i] = entry})

(* C4 as stated: a successful start makes one Unbound-to-Bound transition;
   a rebind(p) that follows, p non-zero and bound by nobody else, makes one
   unbind and one bind, ends bound to p with p stored as the source port,
   and the port bound before is no longer bound *)
C4_BindRoundTrip ==
    [][/\ (op' = "start" /\ Has(calls', "bind:ok")) =>
            /\ ~Bound /\ Bound'
            /\ my_port' = src_port'
            /\ Count(calls', "bind:ok") = 1
       /\ (op' = "rebind" /\ ValidPair /\ src_port' # 0 /\ src_port' \notin others) =>
            /\ Bound' /\ ValidPair'
            /\ my_port' = src_port'
            /\ Count(calls', "unbind:ok") = 1
            /\ Count(calls', "bind:ok") = 1
            /\ ~PortInUse(my_port', others', my_port)]_vars

(* C4 as amended: the same, the port bound before being no longer bound
   unless it is p itself *)
C4_BindRoundTripOtherPort ==
    [][/\ (op' = "start" /\ Has(calls', "bind:ok")) =>
            /\ ~Bound /\ Bound'
            /\ my_port' = src_port'
            /\ Count(calls', "bind:ok") = 1
       /\ (op' = "rebind" /\ ValidPair /\ src_port' # 0 /\ src_port' \notin others) =>
            /\ Bound' /\ ValidPair'
            /\ my_port' = src_port'
            /\ Count(calls', "unbind:ok") = 1
            /\ Count(calls', "bind:ok") = 1
            /\ my_port # src_port' => ~PortInUse(my_port', others', my_port)]_vars

(* a rebind to 300 succeeded: bound to 300, 100 free again *)
C4_Witness ==
    /\ op = "rebind"
    /\ Has(calls, "bind:ok")
    /\ my_port = 300
    /\ src_port = 300
    /\ ValidPair
    /\ ~PortInUse(my_port, others, 100)

(* C5 as stated: after start, never more than one alarm is scheduled *)
C5_OneTimer == started => Scheduled(alarms) <= 1

(* C5 as amended: after start, as long as no direct send() call has taken
   the buffer, never more than one alarm is scheduled *)
C5_OneTimerFiredOnly == (started /\ ~directTook) => Scheduled(alarms) <= 1

(* a completion has re-armed the alarm, and it is the only one *)
C5_Witness ==
    /\ op = "send_done"
    /\ ~directTook
    /\ Scheduled(alarms) = 1

(* C6 as stated: while bound and with every completion arriving in the tick
   of its send, each send made by fired() comes Period ticks after the one
   before, the first Period ticks after start *)
C6_Periodic ==
    [][(FiredSend /\ sync /\ Bound) => sinceLast = Period]_vars

(* C6 as amended: the same, as long as no direct send() call has taken the
   buffer *)
C6_PeriodicFiredOnly ==
    [][(FiredSend /\ sync /\ Bound /\ ~directTook) => sinceLast = Period]_vars

(* the second send made by fired(), every completion so far undelayed *)
C6_Witness ==
    /\ op = "fired"
    /\ SentTo(calls)
    /\ fires = 2
    /\ sinceLast = 0
    /\ sync
    /\ Bound
    /\ ~directTook

(* C7: whatever the status, send_done gives the buffer back to the cell at
   its full length, with the bytes it carried, and schedules one alarm, due
   in Period ticks *)
C7_SendDoneRestores ==
    [][op' = "send_done" =>
         /\ BufLen(The(inflight).buf) = 2
         /\ udp_dgram' # None
         /\ The(udp_dgram').lo = 0
         /\ BufLen(The(udp_dgram')) = BufCap
         /\ The(udp_dgram').data = The(inflight).buf.data
         /\ inflight' = None
         /\ Scheduled(alarms') = Scheduled(alarms) + 1
         /\ alarms'[Period] = alarms[Period] + 1]_vars

(* a completion with a failure status has put the buffer back, full length *)
C7_Witness ==
    /\ op = "send_done"
    /\ calls[1] = "debug:result:FAIL"
    /\ udp_dgram # None
    /\ BufLen(The(udp_dgram)) = BufCap
    /\ inflight = None
    /\ alarms[Period] = 1

U16 == 0..(256 * 256 - 1)
BigEndian(buf, value) ==
    /\ BufLen(buf) = 2
    /\ BufGet(buf, 0) = value \div 256
    /\ BufGet(buf, 1) = value % 256
Carried(value) ==
    /\ inflight' # None
    /\ BigEndian(The(inflight').buf, value)
    /\ The(inflight').dest = DST_ADDR
    /\ The(inflight').port = dst_port

(* C8: a send that finds the buffer in the cell hands the transport a
   datagram of length 2, byte 0 the value div 256 and byte 1 the value mod
   256, for the fixed destination address and the stored destination port;
   the encoding holds for every 16-bit value *)
C8_PayloadEncoding ==
    /\ [](op = "new" => \A v \in U16 : BigEndian(Encode(The(udp_dgram), v), v))
    /\ [][/\ \A v \in Values : (call_send(v) /\ udp_dgram # None) => Carried(v)
          /\ (fired /\ udp_dgram # None) => Carried(id)]_vars

(* send(0x1234) has put [0x12, 0x34], length 2, in flight to port 201 *)
C8_Witness ==
    /\ op = "send"
    /\ inflight # None
    /\ The(inflight).buf.data[1] = 18
    /\ The(inflight).buf.data[2] = 52
    /\ BufLen(The(inflight).buf) = 2
    /\ The(inflight).dest = DST_ADDR
    /\ The(inflight).port = 201

Unbinding(log) ==
    \/ Has(log, "create_socket:err")
    \/ Has(log, "bind:err")
    \/ Has(log, "unbind:err")

(* C9 as stated: once one of the five failures has been handled, the
   session never terminates *)
C9_NeverTerminates == fault => ~panicked

(* C9 as amended: no failure terminates the session, and neither does any
   later timer, completion, receive, send or set_dst event; a rebind panics
   exactly when the sender or the receiver holds no handle, which is how a
   socket-allocation failure, a bind failure and an unbind mismatch leave
   them *)
C9_TerminatesOnlyInRebind ==
    [][/\ Failure(calls') => ~panicked'
       /\ op' # "rebind" => ~panicked'
       /\ op' = "rebind" => (panicked' <=> ~HeldPair)
       /\ Unbinding(calls') => ~HeldPair']_vars

(* after a failed bind the alarm fired and the send was handled *)
C9_Witness ==
    /\ fault
    /\ ~Bound
    /\ op = "fired"
    /\ Has(calls, "send_to:FAIL")
    /\ ~panicked

(* C10: set_dst changes the stored destination port and nothing else, and
   calls no collaborator; the datagram in flight keeps its destination;
   every send that takes the buffer is addressed to the port stored by the
   last set_dst *)
C10_SetDstFrame ==
    [][/\ op' = "set_dst" =>
            /\ UNCHANGED <<id, src_port, udp_dgram, sender_binding,
                           receiver_binding, my_port, others, alarms, inflight,
                           panicked, started>>
            /\ calls' = <<>>
       /\ (SendStep /\ udp_dgram # None) => The(inflight').port = dst_port
       /\ op' # "set_dst" => dst_port' = dst_port]_vars

(* set_dst was called with a datagram in flight, which keeps the old port *)
C10_Witness ==
    /\ op = "set_dst"
    /\ inflight # None
    /\ The(inflight).port # dst_port

(* C11 as stated: two consecutive fired() calls are never less than Period
   ticks apart, whatever is interleaved; and after a completion that came
   more than Period ticks after its send, the next fired() comes exactly
   Period ticks after that completion *)
C11_PeriodStretches ==
    /\ [](lateDone <= Period)
    /\ [][op' = "fired" =>
            /\ sinceAttempt >= 0 => sinceAttempt >= Period
            /\ lateDone >= 0 => lateDone = Period]_vars

(* C11 as amended: the same, the distance between two consecutive fired()
   calls being claimed only as long as no direct send() call has taken the
   buffer *)
C11_PeriodStretchesFiredOnly ==
    /\ [](lateDone <= Period)
    /\ [][op' = "fired" =>
            /\ (~directTook /\ sinceAttempt >= 0) => sinceAttempt >= Period
            /\ lateDone >= 0 => lateDone = Period]_vars

(* fired() has run Period ticks after a late completion, and more than
   Period ticks after the fired() before it *)
C11_Witness ==
    /\ op = "fired"
    /\ afterLate = Period
    /\ sinceAttempt = 0
    /\ ~directTook
    /\ SentTo(calls)

PortTableCall(entry) ==
    entry \in {"create_socket:ok", "create_socket:err", "bind:ok", "bind:err",
               "unbind:ok", "unbind:err", "destroy_socket"}

(* C12: start, in each of its three outcomes, schedules exactly one alarm,
   due in Period ticks, before its first port-table call; the session is
   bound after it exactly when create_socket and bind both succeeded; when
   create_socket failed, it made no bind and no destroy_socket call *)
C12_StartOutcomes ==
    op = "start" =>
        /\ outcome \in {"bound", "bind:err", "create_socket:err"}
        /\ calls[1] = "set_alarm"
        /\ Count(calls, "set_alarm") = 1
        /\ \A i \in 1..Len(calls) : PortTableCall(calls[i]) => i > 1
        /\ Scheduled(alarms) = 1
        /\ alarms[Period] = 1
        /\ Bound <=> (Has(calls, "create_socket:ok") /\ Has(calls, "bind:ok"))
        /\ Bound <=> outcome = "bound"
        /\ outcome = "create_socket:err" =>
               /\ Has(calls, "create_socket:err")
               /\ ~Has(calls, "bind:ok")
               /\ ~Has(calls, "bind:err")
               /\ ~Has(calls, "destroy_socket")

(* start found the port table out of sockets: one alarm, no bind *)
C12_Witness ==
    /\ op = "start"
    /\ outcome = "create_socket:err"
    /\ Cardinality(others) = NumSockets
    /\ alarms[Period] = 1
    /\ ~Bound
    /\ ~HeldPair

(* C13: when the bind in start fails, by a port in use or by port 0, the
   socket is given back with destroy_socket and the port table holds no
   socket for the session, no handle is installed in the sender or the
   receiver, and it stays so; every fired() that follows while the sender
   holds no handle runs send without a panic and without a send_to that the
   transport accepts *)
C13_StartBindFailure ==
    /\ (op = "start" /\ outcome = "bind:err") =>
           /\ src_port = 0 \/ src_port \in others
           /\ Has(calls, "destroy_socket")
           /\ ~Has(calls, "set_binding")
    /\ (outcome = "bind:err" /\ ~tampered) =>
           /\ my_port = NOSOCK
           /\ SocketsOut(my_port, others) = Cardinality(others)
           /\ sender_binding = None
           /\ receiver_binding = None
    /\ (outcome = "bind:err" /\ op = "fired" /\ sender_binding = None) =>
           /\ ~panicked
           /\ ~Has(calls, "send_to:SUCCESS")

(* start found port 300 in use; later the alarm fired and the send failed *)
C13_Witness ==
    /\ outcome = "bind:err"
    /\ src_port = 300
    /\ op = "fired"
    /\ Has(calls, "send_to:FAIL")
    /\ my_port = NOSOCK
    /\ sender_binding = None
    /\ ~panicked

(* C14: a rebind(p) called while the session holds the handle pair of its
   bound socket, with p being 0 or bound by another socket, unbinds, fails
   to bind, gives the socket back with destroy_socket and ends unbound:
   the port table has neither the old port nor p bound for the session, no
   handle is held, and no alarm was scheduled *)
C14_RebindBindFailure ==
    [][/\ \A port \in SrcPorts :
              (rebind(port) /\ ValidPair /\ (port = 0 \/ port \in others)) =>
                  Has(calls', "bind:err")
       /\ (op' = "rebind" /\ Has(calls', "bind:err")) =>
            /\ Bound
            /\ src_port' = 0 \/ src_port' \in others
            /\ Count(calls', "unbind:ok") = 1
            /\ Count(calls', "destroy_socket") = 1
            /\ ~Has(calls', "set_binding")
            /\ ~Bound'
            /\ my_port' = NOSOCK
            /\ SocketsOut(my_port', others') = Cardinality(others')
            /\ ~HeldPair'
            /\ ~Has(calls', "set_alarm")
            /\ alarms' = alarms
            /\ ~panicked']_vars

(* bound by start, then rebind(300) with 300 bound by another socket *)
C14_Witness ==
    /\ op = "rebind"
    /\ Has(calls, "bind:err")
    /\ Has(calls, "destroy_socket")
    /\ outcome = "bound"
    /\ src_port = 300
    /\ 300 \in others
    /\ my_port = NOSOCK

(* the transport delivers the completion of the datagram in flight *)
Completion == \E result \in ReturnCode : send_done(result)

(* C15 as stated: rebind, however it ends, leaves the buffer where it is,
   cell or transport, with its contents, and leaves the scheduled alarms as
   they are; after a rebind called with a datagram in flight the completion
   of that datagram can still be delivered to the session, and acts on the
   same datagram and the same alarms as it would have before the rebind *)
C15_RebindLeavesSendPath ==
    /\ [][op' = "rebind" => UNCHANGED <<udp_dgram, inflight, alarms>>]_vars
    /\ []((op = "rebind" /\ inflight # None) => ENABLED Completion)

(* C15 as amended: the same, the completion being delivered after every
   rebind that returns; a rebind that panics, the sender or the receiver
   holding no handle, ends the session with the datagram still in flight,
   and its completion is never handled *)
C15_RebindLeavesSendPathUnlessPanic ==
    /\ [][op' = "rebind" => UNCHANGED <<udp_dgram, inflight, alarms>>]_vars
    /\ []((op = "rebind" /\ inflight # None /\ ~panicked) => ENABLED Completion)
    /\ []((op = "rebind" /\ panicked) => ~ENABLED Completion)

(* a rebind to 300 succeeded while a datagram was in flight: still in flight *)
C15_Witness ==
    /\ op = "rebind"
    /\ Has(calls, "bind:ok")
    /\ my_port = 300
    /\ inflight # None
    /\ udp_dgram = None
    /\ Scheduled(alarms) = 0
    /\ ~panicked

(* C16: receive, whatever the source and the payload length, zero included,
   changes nothing of the session: source and destination port, the handles
   and the port table, the buffer in its cell or in flight, the alarms; and
   it calls no collaborator, it only prints *)
C16_ReceivePure ==
    [][/\ op' = "receive" =>
            /\ UNCHANGED <<id, src_port, dst_port, udp_dgram, sender_binding,
                           receiver_binding, my_port, others, alarms, inflight,
                           panicked, started>>
            /\ calls' = <<"debug:Received">>
       /\ \A from_port \in DstPorts, len \in 0..1 :
            (started /\ ~panicked) => ENABLED receive(from_port, len)]_vars

(* a datagram was received while bound, a send in flight and an alarm set:
   all still there *)
C16_Witness ==
    /\ op = "receive"
    /\ calls = <<"debug:Received">>
    /\ Bound
    /\ ValidPair
    /\ inflight # None
    /\ Scheduled(alarms) = 1

(* C17 as stated: after start an alarm is scheduled or the buffer is in
   flight with its completion pending, in every state; and, alarms firing
   and completions being delivered, fired() always runs again, also when
   the bind in start failed and when send_to returned a failure status *)
C17_LoopNeverStalls ==
    /\ [](started => Outstanding >= 1)
    /\ []~started \/ []<><<fired /\ Observe>>_vars

(* C17 as amended: the same, unless a rebind called while the sender or the
   receiver holds no handle has panicked and ended the session *)
C17_LoopNeverStallsUnlessPanic ==
    /\ [](started => Outstanding >= 1)
    /\ []~started \/ []<><<fired /\ Observe>>_vars \/ <>panicked

(* the bind in start failed, the alarm fired, send_to returned a failure
   status, the completion came, and the next alarm is scheduled *)
C17_Witness ==
    /\ outcome = "bind:err"
    /\ op = "send_done"
    /\ fault
    /\ ~directTook
    /\ udp_dgram # None
    /\ alarms[Period] = 1
    /\ ~panicked

(* C18: whenever the session's socket is bound in the port table, the stored
   source port is the port it is bound to *)
C18_SrcPortIsBoundPort == Bound => src_port = my_port

(* C19: a rebind(p) called while the sender or the receiver holds no handle
   panics before it has called unbind, bind or destroy_socket, the port
   table being left as it was, and the stored source port is p by then *)
C19_RebindWithoutHandlePanics ==
    [][\A port \in SrcPorts :
         (rebind(port) /\ ~HeldPair) =>
             /\ panicked'
             /\ src_port' = port
             /\ \A i \in 1..Len(calls') : ~PortTableCall(calls'[i])
             /\ Has(calls', "panic:missing1") \/ Has(calls', "panic:missing2")
             /\ table' = table]_vars

(* the bind in start failed; rebind(100) panicked with 100 already stored *)
C19_Witness ==
    /\ op = "rebind"
    /\ panicked
    /\ outcome = "bind:err"
    /\ Has(calls, "panic:missing1")
    /\ src_port = 100
    /\ 100 \notin others
    /\ my_port = NOSOCK

====
